---- MODULE Spec2Model ----
(***************************************************************************)
(* The ledger store of the bookkeeping application (src/main.py): the      *)
(* SQLite file owned by RecordManager, its insert and query operations,    *)
(* and the single-threaded caller that runs one store call at a time.      *)
(* Further specifications cover a file that held rows before the program  *)
(* opened it (SpecLegacy), the application around the store, MainApp and   *)
(* the record dialog (SpecApp), and Record.get_formatted_time (SpecFormat, *)
(* with its own calendar datetime).                                        *)
(*                                                                         *)
(* Text stored in the database is modelled by what the code writes:        *)
(*   - the enum labels "收入", "支出", "全部" are written here "Income",      *)
(*     "Expense", "All"; the payment labels "Cash", "WeChat", "Alipay",     *)
(*     "BankCard"; enum members keep their Python names;                   *)
(*   - a datetime is <<mon, sec, us>> (year-month, the rest of the         *)
(*     fixed-width part down to the second, the microsecond), and its      *)
(*     isoformat() text is the sequence of its fixed-width fields with the *)
(*     fraction left out when the microsecond is 0; texts compare          *)
(*     lexicographically, as SQLite compares TEXT;                         *)
(*   - amounts are integers (a REAL column holding currency units);        *)
(*   - Python's None and SQL's NULL are the strings "None" and "NULL";     *)
(*     an optional integer is <<>> or <<n>>.                               *)
(***************************************************************************)
EXTENDS Integers, Sequences, FiniteSets, TLC

VARIABLES
    schema,      \* TRUE once the records and categories tables exist in the file
    categories,  \* the categories table: a sequence of rows
    records,     \* the records table: a sequence of rows, in rowid order
    seq,         \* sqlite_sequence of records (AUTOINCREMENT): the largest id ever assigned
    added,       \* history: the Record objects whose add_record returned True, in order
    last,        \* the call the caller has just made and what it returned
    app          \* the MainApp process: whether it runs, and the categories it loaded

vars == <<schema, categories, records, seq, added, last, app>>

\* The most rows the records table holds in the model.
MaxRecords == 2

None == "None"
NULL == "NULL"
ValueError == "ValueError"

------------------------------------------------------------------------------
\* Sequence helpers.

RECURSIVE SumSeq(_)
SumSeq(s) == IF s = <<>> THEN 0 ELSE Head(s) + SumSeq(Tail(s))

Drop(s, i) == SubSeq(s, 1, i - 1) \o SubSeq(s, i + 1, Len(s))

Range(s) == {s[i] : i \in 1..Len(s)}

IsPrefix(p, s) == Len(p) <= Len(s) /\ SubSeq(s, 1, Len(p)) = p

Min(a, b) == IF a <= b THEN a ELSE b

------------------------------------------------------------------------------
\* The enumerations and their stored labels.

RecordTypeValue(m) == IF m = "INCOME" THEN "Income" ELSE "Expense"

\* RecordType(label): the member with that label, ValueError when there is none.
RecordTypeLookup(label) ==
    CASE label = "Income" -> "INCOME"
      [] label = "Expense" -> "EXPENSE"
      [] OTHER -> ValueError

RecordTypeMembers == {"INCOME", "EXPENSE"}

PaymentMethodValue(m) ==
    CASE m = "CASH" -> "Cash"
      [] m = "WECHAT" -> "WeChat"
      [] m = "ALIPAY" -> "Alipay"
      [] OTHER -> "BankCard"

PaymentMethodLookup(label) ==
    CASE label = "Cash" -> "CASH"
      [] label = "WeChat" -> "WECHAT"
      [] label = "Alipay" -> "ALIPAY"
      [] label = "BankCard" -> "BANK_CARD"
      [] OTHER -> ValueError

PaymentMethodMembers == {"CASH", "WECHAT", "ALIPAY", "BANK_CARD"}

------------------------------------------------------------------------------
\* Timestamps and their ISO text.

\* datetime.isoformat(): the fraction is written only when the microsecond is not 0.
\* (faulty variant: the fraction is never written)
isoformat_drops_fraction(d) == <<d[1], d[2]>>
isoformat(d) == IF d[3] = 0 THEN <<d[1], d[2]>> ELSE <<d[1], d[2], d[3]>>

\* datetime.fromisoformat(text): ValueError when the text is no ISO timestamp.
fromisoformat(s) ==
    CASE Len(s) = 2 -> <<s[1], s[2], 0>>
      [] Len(s) = 3 -> <<s[1], s[2], s[3]>>
      [] OTHER -> ValueError

\* SQLite's comparison of two TEXT values: field by field, a proper prefix first.
RECURSIVE TextLess(_, _)
TextLess(a, b) ==
    CASE b = <<>> -> FALSE
      [] a = <<>> -> TRUE
      [] Head(a) # Head(b) -> Head(a) < Head(b)
      [] OTHER -> TextLess(Tail(a), Tail(b))

TextLeq(a, b) == a = b \/ TextLess(a, b)

\* x BETWEEN lo AND hi on TEXT.
\* (faulty variant: the upper bound is excluded)
BetweenExclusiveEnd(x, lo, hi) == TextLeq(lo, x) /\ TextLess(x, hi)
Between(x, lo, hi) == TextLeq(lo, x) /\ TextLeq(x, hi)

\* strftime('%Y-%m', text) in SQLite and datetime.strftime("%Y-%m") in Python.
YearMonthOfText(s) == s[1]
YearMonth(d) == d[1]

\* Chronological order of two datetimes.
DateLeq(a, b) ==
    \/ a[1] < b[1]
    \/ a[1] = b[1] /\ a[2] < b[2]
    \/ a[1] = b[1] /\ a[2] = b[2] /\ a[3] <= b[3]

------------------------------------------------------------------------------
\* Domain objects.

Category(id, name, icon, color) ==
    [category_id |-> id, name |-> name, icon |-> icon, color |-> color]

Record(id, amount, type, category, payment, note, date) ==
    [record_id |-> id, amount |-> amount, record_type |-> type,
     category |-> category, payment_method |-> payment, note |-> note,
     record_date |-> date]

\* The ten rows _insert_default_data seeds.
DefaultCategories ==
    << [id |-> 1, name |-> "Food", icon |-> "burger", color |-> "#FF6B6B"],
       [id |-> 2, name |-> "Shopping", icon |-> "bag", color |-> "#4ECDC4"],
       [id |-> 3, name |-> "Transport", icon |-> "car", color |-> "#45B7D1"],
       [id |-> 4, name |-> "Leisure", icon |-> "game", color |-> "#96CEB4"],
       [id |-> 5, name |-> "Digital", icon |-> "phone", color |-> "#F7DC6F"],
       [id |-> 6, name |-> "Health", icon |-> "hospital", color |-> "#BB8FCE"],
       [id |-> 7, name |-> "Education", icon |-> "books", color |-> "#F1948A"],
       [id |-> 8, name |-> "Salary", icon |-> "money", color |-> "#52BE80"],
       [id |-> 9, name |-> "Investment", icon |-> "chart", color |-> "#5499C7"],
       [id |-> 10, name |-> "Other", icon |-> "box", color |-> "#95A5A6"] >>

------------------------------------------------------------------------------
\* The SQL the store runs.

HasId(table, id) == \E i \in 1..Len(table) : table[i].id = id

\* INSERT OR IGNORE INTO categories: a row whose id is present is skipped.
\* (faulty variant: INSERT OR REPLACE that rewrites a present row without its icon)
InsertOrReplace_bare(table, row) ==
    IF HasId(table, row.id)
    THEN [i \in 1..Len(table) |->
             IF table[i].id = row.id THEN [row EXCEPT !.icon = NULL] ELSE table[i]]
    ELSE Append(table, row)
InsertOrIgnore(table, row) == IF HasId(table, row.id) THEN table ELSE Append(table, row)

RECURSIVE InsertAllOrIgnore(_, _)
InsertAllOrIgnore(table, rows) ==
    IF rows = <<>> THEN table
    ELSE InsertAllOrIgnore(InsertOrIgnore(table, Head(rows)), Tail(rows))

\* executemany over the ten default rows.
\* (faulty variant: a plain INSERT into a table without the key)
insert_default_data_appends(table) == table \o DefaultCategories
insert_default_data(table) == InsertAllOrIgnore(table, DefaultCategories)

\* The row INSERT INTO records writes for a Record; the id is assigned by
\* AUTOINCREMENT, the caller's record_id is not among the inserted columns.
RecordRow(id, record) ==
    [id |-> id,
     amount |-> record.amount,
     type |-> RecordTypeValue(record.record_type),
     category_id |-> record.category.category_id,
     payment_method |-> PaymentMethodValue(record.payment_method),
     note |-> record.note,
     record_date |-> isoformat(record.record_date)]

\* records r LEFT JOIN categories c ON r.category_id = c.id, for one row of r.
NullCategoryRow == [id |-> 0, name |-> NULL, icon |-> NULL, color |-> NULL]

Joined(r, c) ==
    [id |-> r.id, amount |-> r.amount, type |-> r.type,
     category_id |-> r.category_id, payment_method |-> r.payment_method,
     note |-> r.note, record_date |-> r.record_date,
     category_name |-> c.name, icon |-> c.icon, color |-> c.color]

\* (faulty variant: an inner JOIN, which drops a row without a category row)
JoinOne_inner(r, cats) ==
    LET m == SelectSeq(cats, LAMBDA c : c.id = r.category_id)
    IN  [i \in 1..Len(m) |-> Joined(r, m[i])]
JoinOne(r, cats) ==
    LET m == SelectSeq(cats, LAMBDA c : c.id = r.category_id)
    IN  IF m = <<>> THEN << Joined(r, NullCategoryRow) >>
        ELSE [i \in 1..Len(m) |-> Joined(r, m[i])]

RECURSIVE LeftJoin(_, _)
LeftJoin(recs, cats) ==
    IF recs = <<>> THEN <<>>
    ELSE JoinOne(Head(recs), cats) \o LeftJoin(Tail(recs), cats)

\* ORDER BY record_date DESC: the largest text first; rows with equal text
\* come out in scan (rowid) order, as SQLite's sorter delivers them.
RECURSIVE OrderByDateDesc(_)
OrderByDateDesc(rows) ==
    IF rows = <<>> THEN <<>>
    ELSE LET i == CHOOSE i \in 1..Len(rows) :
                    \A j \in 1..Len(rows) :
                        /\ ~TextLess(rows[i].record_date, rows[j].record_date)
                        /\ (rows[j].record_date = rows[i].record_date => i <= j)
         IN  << rows[i] >> \o OrderByDateDesc(Drop(rows, i))

\* LIMIT n: a negative n is no limit.
SqlLimit(rows, n) == IF n < 0 THEN rows ELSE SubSeq(rows, 1, Min(n, Len(rows)))

\* The Record object the read loop builds from one joined row; a record_date
\* that does not parse becomes the current time.
IsIsoText(s) == Len(s) \in {2, 3}

RowToRecord(row, now) ==
    Record(row.id, row.amount, RecordTypeLookup(row.type),
           Category(row.category_id, row.category_name, row.icon, row.color),
           PaymentMethodLookup(row.payment_method), row.note,
           IF IsIsoText(row.record_date) THEN fromisoformat(row.record_date) ELSE now)

\* The loop over fetchall(): an unknown label raises ValueError out of the loop,
\* and the handler's except clause returns the empty list.
\* (faulty variant: no inner try, so a record_date that does not parse raises
\* out of the loop as an unknown label does)
RowsToRecords_strict_date(rows, now) ==
    IF \E i \in 1..Len(rows) :
           \/ RecordTypeLookup(rows[i].type) = ValueError
           \/ PaymentMethodLookup(rows[i].payment_method) = ValueError
           \/ ~IsIsoText(rows[i].record_date)
    THEN <<>>
    ELSE [i \in 1..Len(rows) |-> RowToRecord(rows[i], now)]
RowsToRecords(rows, now) ==
    IF \E i \in 1..Len(rows) :
           \/ RecordTypeLookup(rows[i].type) = ValueError
           \/ PaymentMethodLookup(rows[i].payment_method) = ValueError
    THEN <<>>
    ELSE [i \in 1..Len(rows) |-> RowToRecord(rows[i], now)]

------------------------------------------------------------------------------
\* RecordManager: each operation as a function of the file and its arguments.
\* fault says where the call meets a storage error: "none", "connect" (the file
\* cannot be opened), "execute" (a statement fails), "commit".

\* _init_database: CREATE TABLE IF NOT EXISTS runs outside a transaction, so the
\* tables stay once created; the seeding is committed only by conn.commit().
init_database_schema(fault) == IF fault = "connect" THEN schema ELSE TRUE

init_database_categories(fault) ==
    IF fault = "none" THEN insert_default_data(categories) ELSE categories

\* add_record on a file with tables sch, rows recs and counter sq: returns what
\* the file holds afterwards and the boolean result.
add_record_on(sch, recs, sq, record, fault) ==
    IF sch /\ fault = "none"
    THEN [records |-> Append(recs, RecordRow(sq + 1, record)),
          seq |-> sq + 1, ret |-> TRUE]
    ELSE [records |-> recs, seq |-> sq, ret |-> FALSE]

\* (faulty variant: the row stays when commit fails)
add_record_keeps_failed_row(record, fault) ==
    IF schema /\ fault \in {"none", "commit"}
    THEN [records |-> Append(records, RecordRow(seq + 1, record)),
          seq |-> seq + 1, ret |-> fault = "none"]
    ELSE [records |-> records, seq |-> seq, ret |-> FALSE]
\* (faulty variant: the row is stored under the record_id the caller passed)
add_record_uses_caller_id(record, fault) ==
    IF schema /\ fault = "none"
    THEN [records |-> Append(records, RecordRow(record.record_id, record)),
          seq |-> seq, ret |-> TRUE]
    ELSE [records |-> records, seq |-> seq, ret |-> FALSE]
\* (faulty variant: a category id without a row in categories is refused, as
\* an enforced foreign key would)
add_record_checks_category(record, fault) ==
    IF schema /\ fault = "none" /\ HasId(categories, record.category.category_id)
    THEN [records |-> Append(records, RecordRow(seq + 1, record)),
          seq |-> seq + 1, ret |-> TRUE]
    ELSE [records |-> records, seq |-> seq, ret |-> FALSE]
add_record_replaces_last(record, fault) ==
    IF schema /\ fault = "none"
    THEN [records |-> IF records = <<>>
                      THEN << RecordRow(seq + 1, record) >>
                      ELSE [records EXCEPT ![Len(records)] = RecordRow(seq + 1, record)],
          seq |-> seq + 1, ret |-> TRUE]
    ELSE [records |-> records, seq |-> seq, ret |-> FALSE]
add_record(record, fault) == add_record_on(schema, records, seq, record, fault)

\* get_all_records(limit): "if limit:" is false for None and for 0.
Truthy(limit) == limit # <<>> /\ limit[1] # 0

get_all_records_on(sch, cats, recs, limit, fault, now) ==
    IF ~sch \/ fault # "none" THEN <<>>
    ELSE LET rows == OrderByDateDesc(LeftJoin(recs, cats))
         IN  RowsToRecords(IF Truthy(limit) THEN SqlLimit(rows, limit[1]) ELSE rows, now)

get_all_records(limit, fault, now) ==
    get_all_records_on(schema, categories, records, limit, fault, now)

\* "if record_type and record_type != '全部'": None, "" and "All" are no filter.
\* (faulty variant: "All" is taken for a type)
HasFilter_all_is_a_type(record_type) == record_type # None /\ record_type # ""
HasFilter(record_type) ==
    record_type # None /\ record_type # "" /\ record_type # "All"

\* WHERE record_date BETWEEN ? AND ? [AND type = ?], the bounds passed as
\* start_date.isoformat() and end_date.isoformat().
InRange(rows, start_date, end_date, record_type) ==
    SelectSeq(rows, LAMBDA r :
        /\ Between(r.record_date, isoformat(start_date), isoformat(end_date))
        /\ (HasFilter(record_type) => r.type = record_type))

SumAmount(rows) == SumSeq([i \in 1..Len(rows) |-> rows[i].amount])

TypeLabels == {"Income", "Expense"}

\* SELECT type, SUM(amount) ... GROUP BY type, merged over {"收入": 0.0, "支出": 0.0}:
\* a group the query returns overwrites (or adds) its key.
TotalsByType(rows) ==
    LET groups == {rows[i].type : i \in 1..Len(rows)}
    IN  [k \in TypeLabels \cup groups |->
            IF k \in groups THEN SumAmount(SelectSeq(rows, LAMBDA r : r.type = k)) ELSE 0]

ZeroTotals == [k \in TypeLabels |-> 0]

get_records_by_date_range(start_date, end_date, record_type, fault, now) ==
    IF ~schema \/ fault # "none" THEN <<>>
    ELSE RowsToRecords(
             OrderByDateDesc(InRange(LeftJoin(records, categories),
                                     start_date, end_date, record_type)), now)

get_summary_by_date_range(start_date, end_date, record_type, fault) ==
    IF ~schema \/ fault # "none" THEN ZeroTotals
    ELSE LET result == TotalsByType(InRange(records, start_date, end_date, record_type))
         IN  IF HasFilter(record_type)
             THEN [k \in {record_type} |->
                      IF record_type \in DOMAIN result THEN result[record_type] ELSE 0]
             ELSE result

\* SELECT c.name, r.type, SUM(r.amount) ... GROUP BY c.name, r.type: one entry
\* per name the query returns (NULL for rows without a category row), each
\* seeded with the two zero totals.
EmptyMap == [k \in {} |-> 0]

\* (faulty variant: the totals are not seeded with zeros)
get_category_summary_no_zero_fill(start_date, end_date, record_type, fault) ==
    IF ~schema \/ fault # "none" THEN EmptyMap
    ELSE LET rows == InRange(LeftJoin(records, categories),
                             start_date, end_date, record_type)
             names == {rows[i].category_name : i \in 1..Len(rows)}
         IN  [n \in names |->
                LET mine == SelectSeq(rows, LAMBDA r : r.category_name = n)
                IN  [k \in {mine[i].type : i \in 1..Len(mine)} |->
                        SumAmount(SelectSeq(mine, LAMBDA r : r.type = k))]]
get_category_summary(start_date, end_date, record_type, fault) ==
    IF ~schema \/ fault # "none" THEN EmptyMap
    ELSE LET rows == InRange(LeftJoin(records, categories),
                             start_date, end_date, record_type)
             names == {rows[i].category_name : i \in 1..Len(rows)}
         IN  [n \in names |->
                TotalsByType(SelectSeq(rows, LAMBDA r : r.category_name = n))]

\* WHERE strftime('%Y-%m', record_date) = datetime.now().strftime("%Y-%m").
\* (faulty variant: no WHERE clause)
get_monthly_summary_all_months(now, fault) ==
    IF ~schema \/ fault # "none" THEN ZeroTotals
    ELSE TotalsByType(records)
get_monthly_summary(now, fault) ==
    IF ~schema \/ fault # "none" THEN ZeroTotals
    ELSE TotalsByType(SelectSeq(records,
             LAMBDA r : YearMonthOfText(r.record_date) = YearMonth(now)))

------------------------------------------------------------------------------
\* The caller: one store call at a time; Return hands control back to the
\* event loop, which makes the next call.

NoCall == [op |-> "idle"]

\* No MainApp process: the store is used through RecordManager alone.
NotRunning == [running |-> FALSE, categories |-> <<>>]

Idle == last = NoCall

CallerCategory(c) ==
    IF c \in 1..Len(DefaultCategories)
    THEN Category(c, DefaultCategories[c].name, DefaultCategories[c].icon,
                  DefaultCategories[c].color)
    ELSE Category(c, "Unlisted", "none", "#666666")

\* RecordManager.__init__ on a file that does not exist yet.
Init ==
    /\ records = <<>>
    /\ seq = 0
    /\ added = <<>>
    /\ \E fault \in {"none", "connect", "commit"} :
         /\ schema = (fault # "connect")
         /\ categories = IF fault = "none" THEN insert_default_data(<<>>) ELSE <<>>
         /\ last = [op |-> "init_database", fault |-> fault, ret |-> None]
    /\ app = NotRunning

InitDatabase ==
    /\ Idle
    /\ \E fault \in {"none", "connect", "commit"} :
         /\ schema' = init_database_schema(fault)
         /\ categories' = init_database_categories(fault)
         /\ last' = [op |-> "init_database", fault |-> fault, ret |-> None]
    /\ UNCHANGED <<records, seq, added, app>>

AddRecord(Inputs) ==
    /\ Idle
    /\ Len(records) < MaxRecords
    /\ \E record \in Inputs, fault \in {"none", "connect", "execute", "commit"} :
         LET out == add_record(record, fault)
         IN  /\ records' = out.records
             /\ seq' = out.seq
             /\ added' = IF out.ret THEN Append(added, record) ELSE added
             /\ last' = [op |-> "add_record", record |-> record, fault |-> fault,
                         ret |-> out.ret]
    /\ UNCHANGED <<schema, categories, app>>

GetAllRecords(Limits, Nows) ==
    /\ Idle
    /\ \E limit \in Limits, fault \in {"none", "connect"}, now \in Nows :
         last' = [op |-> "get_all_records", limit |-> limit, fault |-> fault,
                  now |-> now, ret |-> get_all_records(limit, fault, now)]
    /\ UNCHANGED <<schema, categories, records, seq, added, app>>

GetRecordsByDateRange(Dates, Filters, Nows) ==
    /\ Idle
    /\ \E start_date \in Dates, end_date \in Dates, record_type \in Filters,
          fault \in {"none", "connect"}, now \in Nows :
         last' = [op |-> "get_records_by_date_range", start_date |-> start_date,
                  end_date |-> end_date, record_type |-> record_type, fault |-> fault,
                  now |-> now,
                  ret |-> get_records_by_date_range(start_date, end_date,
                                                    record_type, fault, now)]
    /\ UNCHANGED <<schema, categories, records, seq, added, app>>

GetSummaryByDateRange(Dates, Filters) ==
    /\ Idle
    /\ \E start_date \in Dates, end_date \in Dates, record_type \in Filters,
          fault \in {"none", "connect"} :
         last' = [op |-> "get_summary_by_date_range", start_date |-> start_date,
                  end_date |-> end_date, record_type |-> record_type, fault |-> fault,
                  ret |-> get_summary_by_date_range(start_date, end_date,
                                                    record_type, fault)]
    /\ UNCHANGED <<schema, categories, records, seq, added, app>>

GetCategorySummary(Dates, Filters) ==
    /\ Idle
    /\ \E start_date \in Dates, end_date \in Dates, record_type \in Filters,
          fault \in {"none", "connect"} :
         last' = [op |-> "get_category_summary", start_date |-> start_date,
                  end_date |-> end_date, record_type |-> record_type, fault |-> fault,
                  ret |-> get_category_summary(start_date, end_date,
                                               record_type, fault)]
    /\ UNCHANGED <<schema, categories, records, seq, added, app>>

GetMonthlySummary(Nows) ==
    /\ Idle
    /\ \E now \in Nows, fault \in {"none", "connect"} :
         last' = [op |-> "get_monthly_summary", now |-> now, fault |-> fault,
                  ret |-> get_monthly_summary(now, fault)]
    /\ UNCHANGED <<schema, categories, records, seq, added, app>>

Return ==
    /\ ~Idle
    /\ last' = NoCall
    /\ UNCHANGED <<schema, categories, records, seq, added, app>>

------------------------------------------------------------------------------
\* What the caller passes. The four records MainApp._create_sample_data inserts
\* (amounts in hundredths), and two records no dialog would build: one whose
\* category id is in no row of categories, one whose amount is 0.

SampleRecord(k, date) ==
    CASE k = 1 -> Record(0, 25680, "EXPENSE", CallerCategory(2), "ALIPAY", "groceries", date)
      [] k = 2 -> Record(0, 660000, "INCOME", CallerCategory(8), "WECHAT", "salary", date)
      [] k = 3 -> Record(0, 12800, "EXPENSE", CallerCategory(1), "WECHAT", "dinner", date)
      [] k = 4 -> Record(0, 3900, "EXPENSE", CallerCategory(4), "CASH", "cinema", date)
      [] k = 5 -> Record(0, 100, "INCOME", CallerCategory(11), "BANK_CARD", "", date)
      [] OTHER -> Record(0, 0, "EXPENSE", CallerCategory(2), "CASH", "", date)

------------------------------------------------------------------------------
\* The store specification: records that differ in every field, inserted and
\* read back whole.

StoreDates == {<<1, 0, 0>>, <<1, 0, 1>>, <<1, 1, 0>>}

StoreInputs == {SampleRecord(k, d) : k \in 1..6, d \in StoreDates}

StoreLimits == {<<>>, <<0>>, <<1>>, <<2>>}

\* The clock reading of a read call; no row of this specification needs it.
StoreNows == {<<1, 1, 0>>}

Next ==
    \/ InitDatabase
    \/ AddRecord(StoreInputs)
    \/ GetAllRecords(StoreLimits, StoreNows)
    \/ Return

Spec == Init /\ [][Next]_vars

------------------------------------------------------------------------------
\* The query specification: records of both types, with and without a category
\* row, in two months, queried over every pair of bounds.

QueryDates == {<<1, 0, 0>>, <<1, 0, 1>>, <<2, 0, 0>>}

QueryInputs == {SampleRecord(k, d) : k \in {1, 2, 5, 6}, d \in QueryDates}

QueryFilters == {None, "All", "Income", "Expense"}

QueryNows == {<<1, 0, 1>>, <<2, 0, 0>>}

NextQuery ==
    \/ InitDatabase
    \/ AddRecord(QueryInputs)
    \/ GetAllRecords({<<>>}, QueryNows)
    \/ GetRecordsByDateRange(QueryDates, QueryFilters, StoreNows)
    \/ GetSummaryByDateRange(QueryDates, QueryFilters)
    \/ GetCategorySummary(QueryDates, QueryFilters)
    \/ GetMonthlySummary(QueryNows)
    \/ Return

SpecQuery == Init /\ [][NextQuery]_vars

------------------------------------------------------------------------------
\* Properties of insert, read-all and initialization, under Spec.

\* A Record read back carries the fields of the Record that was passed in.
SameFields(got, given) ==
    /\ got.amount = given.amount
    /\ got.record_type = given.record_type
    /\ got.category.category_id = given.category.category_id
    /\ got.payment_method = given.payment_method
    /\ got.note = given.note
    /\ got.record_date = given.record_date

UniqueIds(table) ==
    \A i, j \in 1..Len(table) : table[i].id = table[j].id => i = j

\* C1: after add_record(R) returned True for a Record R with amount > 0, a
\* get_all_records() without limit that reaches the store returns a sequence
\* holding a Record with R's amount, type, category id, payment method, note
\* and timestamp, whose record_id is > 0 and is not the record_id R was
\* passed with.
C1_RoundTrip ==
    (last.op = "get_all_records" /\ last.fault = "none" /\ last.limit = <<>>) =>
        \A i \in 1..Len(added) :
            added[i].amount > 0 =>
                \E j \in 1..Len(last.ret) :
                    /\ SameFields(last.ret[j], added[i])
                    /\ last.ret[j].record_id > 0
                    /\ last.ret[j].record_id # added[i].record_id

\* C1 witness: two records were added, one with a fractional timestamp, and
\* get_all_records() has returned.
C1_Witness ==
    /\ last.op = "get_all_records" /\ last.fault = "none" /\ last.limit = <<>>
    /\ Len(added) = 2
    /\ \E i \in 1..Len(added) : added[i].amount > 0 /\ added[i].record_date[3] # 0

\* C2: get_all_records(limit=N) returns at most N records, ordered by timestamp
\* descending, and the sequence is a prefix of what get_all_records() without
\* limit returns on the same store.
C2_LimitIsPrefix ==
    (last.op = "get_all_records" /\ last.fault = "none" /\ last.limit # <<>>) =>
        /\ Len(last.ret) <= last.limit[1]
        /\ \A i \in 1..(Len(last.ret) - 1) :
               DateLeq(last.ret[i + 1].record_date, last.ret[i].record_date)
        /\ IsPrefix(last.ret, get_all_records(<<>>, "none", <<1, 0, 0>>))

\* C5: a run of _init_database on a store that holds its tables leaves every
\* category row that was present in place and unchanged, leaves no two
\* category rows with the same id, and leaves the records table (and the id
\* counter) exactly as it was.
C5_InitIdempotent ==
    [][(last'.op = "init_database" /\ schema) =>
           /\ records' = records
           /\ seq' = seq
           /\ UniqueIds(categories')
           /\ Len(categories') >= Len(categories)
           /\ \A i \in 1..Len(categories) : categories'[i] = categories[i]
           /\ (Len(categories) = Len(DefaultCategories) => categories' = categories)
      ]_vars

\* C5 witness: _init_database has run again, successfully, on a store that
\* already holds two records and the ten categories.
C5_Witness ==
    /\ last.op = "init_database" /\ last.fault = "none"
    /\ Len(records) = 2
    /\ Len(categories) = Len(DefaultCategories)

\* C9: add_record returns a boolean; True exactly when the row was inserted
\* and committed (one more row, the rows before it unchanged); when it returns
\* False the tables, the schema and the id counter are what they were, so a
\* later call finds the store as if the failed call had not been made.
C9_AddAtomic ==
    [][(last'.op = "add_record") =>
           /\ last'.ret \in BOOLEAN
           /\ last'.ret = (schema /\ last'.fault = "none")
           /\ last'.ret =>
                 /\ Len(records') = Len(records) + 1
                 /\ SubSeq(records', 1, Len(records)) = records
                 /\ added' = Append(added, last'.record)
           /\ ~last'.ret =>
                 /\ records' = records
                 /\ seq' = seq
                 /\ added' = added
           /\ categories' = categories
           /\ schema' = schema
      ]_vars

\* C9 witness: an add_record that failed at commit, after one that succeeded.
C9_Witness ==
    /\ last.op = "add_record" /\ ~last.ret /\ last.fault = "commit"
    /\ Len(records) = 1

------------------------------------------------------------------------------
\* Properties of the range and month queries, under SpecQuery.

RangeOps ==
    {"get_records_by_date_range", "get_summary_by_date_range", "get_category_summary"}

\* The persisted rows whose timestamp lies chronologically in [start, end] and
\* whose type passes the filter.
RowDate(r) == fromisoformat(r.record_date)

ChronoInRange(start_date, end_date, record_type) ==
    SelectSeq(records, LAMBDA r :
        /\ DateLeq(start_date, RowDate(r))
        /\ DateLeq(RowDate(r), end_date)
        /\ (record_type \in TypeLabels => r.type = record_type))

\* The name the categories table gives a category id, NULL when it has no row.
CategoryNameOf(cid) ==
    IF HasId(categories, cid)
    THEN (CHOOSE c \in Range(categories) : c.id = cid).name
    ELSE NULL

OfType(rows, t) == SelectSeq(rows, LAMBDA r : r.type = t)

OfName(rows, n) == SelectSeq(rows, LAMBDA r : CategoryNameOf(r.category_id) = n)

\* C3: the mapping get_summary_by_date_range(S, E, "All") returns equals, for
\* Income and for Expense, the sum of the amounts of the records of that type
\* that get_records_by_date_range(S, E, "All") returns on the same store (0
\* when there is none).
C3_SummaryMatchesRecords ==
    (last.op = "get_summary_by_date_range" /\ last.fault = "none"
        /\ last.record_type = "All") =>
        LET recs == get_records_by_date_range(last.start_date, last.end_date, "All",
                                              "none", last.start_date)
            amounts(t) == SelectSeq(recs, LAMBDA r : RecordTypeValue(r.record_type) = t)
        IN  last.ret = [t \in TypeLabels |->
                           SumSeq([i \in 1..Len(amounts(t)) |-> amounts(t)[i].amount])]

\* C3 witness: a summary over a range that holds a record with a category row
\* and a record without one.
C3_Witness ==
    /\ last.op = "get_summary_by_date_range" /\ last.fault = "none"
    /\ last.record_type = "All"
    /\ last.ret["Income"] > 0 /\ last.ret["Expense"] > 0
    /\ \E i \in 1..Len(records) : ~HasId(categories, records[i].category_id)

\* C4: get_summary_by_date_range(S, E, T) for T Income or Expense returns, on
\* every outcome of the call, a mapping whose only key is T, with the value
\* the "All" call gives T on the same store.
C4_NarrowedToOneKey ==
    (last.op = "get_summary_by_date_range" /\ last.record_type \in TypeLabels) =>
        /\ DOMAIN last.ret = {last.record_type}
        /\ last.ret[last.record_type] =
              get_summary_by_date_range(last.start_date, last.end_date, "All",
                                        last.fault)[last.record_type]

\* C6: for S <= E, a persisted record is returned by get_records_by_date_range
\* and counted by get_summary_by_date_range and get_category_summary exactly
\* when its timestamp t satisfies S <= t <= E chronologically (and its type
\* passes the filter): t = S and t = E are in, t < S and t > E are out.
C6_InclusiveBounds ==
    (last.op \in RangeOps /\ last.fault = "none"
        /\ DateLeq(last.start_date, last.end_date)) =>
        LET rows == ChronoInRange(last.start_date, last.end_date, last.record_type)
        IN  CASE last.op = "get_records_by_date_range" ->
                   /\ Len(last.ret) = Len(rows)
                   /\ {last.ret[i].record_id : i \in 1..Len(last.ret)}
                        = {rows[i].id : i \in 1..Len(rows)}
              [] last.op = "get_summary_by_date_range" ->
                   \A t \in DOMAIN last.ret : last.ret[t] = SumAmount(OfType(rows, t))
              [] OTHER ->
                   /\ \A i \in 1..Len(rows) :
                          CategoryNameOf(rows[i].category_id) \in DOMAIN last.ret
                   /\ \A n \in DOMAIN last.ret : \A t \in TypeLabels :
                          last.ret[n][t] = SumAmount(OfType(OfName(rows, n), t))

\* C6 witness: a range query whose bounds differ, with one record exactly at
\* the start and one exactly at the end.
C6_Witness ==
    /\ last.op \in RangeOps /\ last.fault = "none" /\ schema
    /\ last.start_date # last.end_date
    /\ DateLeq(last.start_date, last.end_date)
    /\ \E i, j \in 1..Len(records) :
          /\ RowDate(records[i]) = last.start_date
          /\ RowDate(records[j]) = last.end_date

\* C7: get_monthly_summary() returns a mapping with exactly the keys Income and
\* Expense, each the sum of the amounts of the persisted records of that type
\* whose timestamp is in the current year-month, 0 when there is none.
C7_MonthlySummary ==
    (last.op = "get_monthly_summary" /\ last.fault = "none") =>
        LET rows == SelectSeq(records, LAMBDA r : YearMonth(RowDate(r)) = YearMonth(last.now))
        IN  /\ DOMAIN last.ret = TypeLabels
            /\ \A t \in TypeLabels : last.ret[t] = SumAmount(OfType(rows, t))

\* C7 witness: the store holds one record of another month and the 6600.00
\* salary of this month, and the summary is {Income: 6600.00, Expense: 0}.
C7_Witness ==
    /\ last.op = "get_monthly_summary" /\ last.fault = "none"
    /\ last.ret = [t \in TypeLabels |-> IF t = "Income" THEN 660000 ELSE 0]
    /\ \E i \in 1..Len(records) : YearMonth(RowDate(records[i])) # YearMonth(last.now)

\* C7 scenario: after the 256.80 expense and the 6600.00 income of this month,
\* the summary is {Income: 6600.00, Expense: 256.80}.
C7_Scenario ==
    /\ last.op = "get_monthly_summary" /\ last.fault = "none"
    /\ Len(records) = 2
    /\ last.ret = [t \in TypeLabels |-> IF t = "Income" THEN 660000 ELSE 25680]

\* C8: get_category_summary(S, E, "All") returns one key per category name
\* that has a record in range, NULL standing for the records whose category id
\* has no row; each value has exactly the keys Income and Expense, holding the
\* sum of the in-range amounts of that name and type, 0 where there is none.
C8_CategorySummary ==
    (last.op = "get_category_summary" /\ last.fault = "none"
        /\ last.record_type = "All") =>
        LET rows == ChronoInRange(last.start_date, last.end_date, "All")
        IN  /\ DOMAIN last.ret
                 = {CategoryNameOf(rows[i].category_id) : i \in 1..Len(rows)}
            /\ \A n \in DOMAIN last.ret :
                  /\ DOMAIN last.ret[n] = TypeLabels
                  /\ \A t \in TypeLabels :
                        last.ret[n][t] = SumAmount(OfType(OfName(rows, n), t))

\* C8 witness: a summary with the Shopping key (expense only), the NULL key,
\* and nothing else.
C8_Witness ==
    /\ last.op = "get_category_summary" /\ last.fault = "none"
    /\ last.record_type = "All"
    /\ DOMAIN last.ret = {"Shopping", NULL}
    /\ last.ret["Shopping"] = [t \in TypeLabels |-> IF t = "Expense" THEN 25680 ELSE 0]
    /\ last.ret[NULL]["Income"] = 100

\* C10: _init_database returns normally; a get_all_records or
\* get_records_by_date_range that meets a storage error returns the empty
\* sequence; a get_summary_by_date_range, get_category_summary or
\* get_monthly_summary that meets one returns a mapping of zeros with the key
\* set the same call returns when it reaches the store.
C10_FailureShape ==
    /\ last.op = "init_database" => last.ret = None
    /\ (last.op \in {"get_all_records", "get_records_by_date_range"}
          /\ last.fault # "none") => last.ret = <<>>
    /\ (last.op = "get_monthly_summary" /\ last.fault # "none") =>
          last.ret = ZeroTotals
    /\ (last.op = "get_summary_by_date_range" /\ last.fault # "none" /\ schema) =>
          /\ \A k \in DOMAIN last.ret : last.ret[k] = 0
          /\ DOMAIN last.ret =
                DOMAIN get_summary_by_date_range(last.start_date, last.end_date,
                                                 last.record_type, "none")
    /\ (last.op = "get_category_summary" /\ last.fault # "none" /\ schema) =>
          DOMAIN last.ret =
              DOMAIN get_category_summary(last.start_date, last.end_date,
                                          last.record_type, "none")

------------------------------------------------------------------------------
\* Properties of the tables over every step.

\* C11: the records table only grows at its end: every row once persisted
\* stays, with its id and fields; an add_record that returns True adds exactly
\* one row; a failed add_record and every other operation (_init_database and
\* the five queries) leave the table as it was.
C11_AppendOnly ==
    [][/\ IsPrefix(records, records')
       /\ (last'.op = "add_record" /\ last'.ret) => Len(records') = Len(records) + 1
       /\ ~(last'.op = "add_record" /\ last'.ret) => records' = records
      ]_vars

\* C11 witness: a second record has been added to a store that is then read.
C11_Witness ==
    /\ last.op \in {"get_records_by_date_range", "get_monthly_summary"}
    /\ Len(records) = 2
    /\ records[1].id = 1 /\ records[2].id = 2

\* C12: a successful _init_database leaves exactly the ten default rows, ids
\* 1..10, in categories, and once they are there no step (add_record, a
\* query, another _init_database) changes the rows of the table.
C12_CategoriesWriteOnce ==
    /\ []((last.op = "init_database" /\ last.fault = "none") =>
              /\ categories = DefaultCategories
              /\ {categories[i].id : i \in 1..Len(categories)} = 1..10)
    /\ [][categories # <<>> => categories' = categories]_vars

\* C12 witness: _init_database has run again on a store that holds the ten
\* rows and a record.
C12_Witness ==
    /\ last.op = "init_database" /\ last.fault = "none"
    /\ Len(records) = 1
    /\ Range(categories) = Range(DefaultCategories)

\* C13: get_records_by_date_range(S, E, F) returns exactly the records
\* get_all_records() returns whose timestamp is in [S, E] and, for F Income
\* or Expense, whose type is F, ordered by timestamp descending; F = "All" and
\* no F give the same sequence.
C13_RangeIsFilteredAll ==
    (last.op = "get_records_by_date_range" /\ last.fault = "none") =>
        LET all == get_all_records(<<>>, "none", last.start_date)
            wanted == SelectSeq(all, LAMBDA r :
                          /\ DateLeq(last.start_date, r.record_date)
                          /\ DateLeq(r.record_date, last.end_date)
                          /\ (last.record_type \in TypeLabels =>
                                 RecordTypeValue(r.record_type) = last.record_type))
        IN  /\ Len(last.ret) = Len(wanted)
            /\ Range(last.ret) = Range(wanted)
            /\ \A i \in 1..(Len(last.ret) - 1) :
                   DateLeq(last.ret[i + 1].record_date, last.ret[i].record_date)
            /\ last.record_type \in {None, "All"} =>
                   /\ last.ret = get_records_by_date_range(last.start_date,
                                     last.end_date, None, "none", last.start_date)
                   /\ last.ret = get_records_by_date_range(last.start_date,
                                     last.end_date, "All", "none", last.start_date)

\* C13 witness: an Income query over a range that holds an Income and an
\* Expense record returns the one Income record.
C13_Witness ==
    /\ last.op = "get_records_by_date_range" /\ last.fault = "none"
    /\ last.record_type = "Income"
    /\ Len(last.ret) = 1
    /\ \E i \in 1..Len(records) :
          /\ records[i].type = "Expense"
          /\ DateLeq(last.start_date, RowDate(records[i]))
          /\ DateLeq(RowDate(records[i]), last.end_date)

------------------------------------------------------------------------------
\* A file that already holds rows when RecordManager opens it: rows written by
\* another writer of finance.db, one of them with a record_date that is no ISO
\* timestamp (a year-month only, or a timestamp with trailing text). This is
\* the case the inner "except ValueError" of the read loops is written for;
\* add_record itself only ever writes datetime.isoformat() text.

MalformedTexts == {<<1>>, <<1, 0, 0, 0>>}

LegacyDates == {<<1, 0, 0>>, <<1, 0, 1>>}

LegacyRow(id, k, text) == [RecordRow(id, SampleRecord(k, <<1, 0, 0>>)) EXCEPT !.record_date = text]

LegacyStores ==
    LET bad(id) == {LegacyRow(id, k, t) : k \in {1, 5}, t \in MalformedTexts}
        good(id) == {LegacyRow(id, 2, isoformat(d)) : d \in LegacyDates}
    IN  {<<m>> : m \in bad(1)}
            \cup {<<m, g>> : m \in bad(1), g \in good(2)}
            \cup {<<g, m>> : g \in good(1), m \in bad(2)}

LegacyInputs == {SampleRecord(k, d) : k \in {3}, d \in LegacyDates}

\* RecordManager.__init__ on such a file: the tables exist, the default
\* categories are inserted or already there, the rows stay.
InitLegacy ==
    /\ \E rows \in LegacyStores :
         /\ records = rows
         /\ seq = Len(rows)
    /\ added = <<>>
    /\ schema = TRUE
    /\ categories = insert_default_data(<<>>)
    /\ last = [op |-> "init_database", fault |-> "none", ret |-> None]
    /\ app = NotRunning

NextLegacy ==
    \/ AddRecord(LegacyInputs)
    \/ GetAllRecords({<<>>}, QueryNows)
    \/ GetRecordsByDateRange(QueryDates, QueryFilters, QueryNows)
    \/ Return

SpecLegacy == InitLegacy /\ [][NextLegacy]_vars

------------------------------------------------------------------------------
\* Properties of rows the read loops have to tolerate.

\* The rows a read call selects: all of them for get_all_records(), those the
\* WHERE clause keeps for get_records_by_date_range.
Selected(call) ==
    {i \in 1..Len(records) :
        call.op = "get_records_by_date_range" =>
            /\ TextLeq(isoformat(call.start_date), records[i].record_date)
            /\ TextLeq(records[i].record_date, isoformat(call.end_date))
            /\ (call.record_type \in TypeLabels => records[i].type = call.record_type)}

\* The Record in ret that was built from the row: every column as stored.
BuiltFrom(rec, row) ==
    /\ rec.record_id = row.id
    /\ rec.amount = row.amount
    /\ RecordTypeValue(rec.record_type) = row.type
    /\ rec.category.category_id = row.category_id
    /\ PaymentMethodValue(rec.payment_method) = row.payment_method
    /\ rec.note = row.note

ReadCall ==
    /\ last.op \in {"get_all_records", "get_records_by_date_range"}
    /\ last.fault = "none"
    /\ schema

\* C15: with one persisted row whose record_date is no ISO timestamp,
\* get_all_records() and get_records_by_date_range return one Record for every
\* row the query selects; the Record of the malformed row has the current time
\* as its timestamp and the row's other fields, every other Record has its
\* row's timestamp.
C15_MalformedRowKept ==
    (ReadCall /\ \E i \in 1..Len(records) : ~IsIsoText(records[i].record_date)) =>
        /\ Len(last.ret) = Cardinality(Selected(last))
        /\ \A i \in Selected(last) :
               \E j \in 1..Len(last.ret) :
                   /\ BuiltFrom(last.ret[j], records[i])
                   /\ last.ret[j].record_date =
                          IF IsIsoText(records[i].record_date)
                          THEN fromisoformat(records[i].record_date)
                          ELSE last.now

\* C15 witness: a range query has returned two records, one of them built
\* from the malformed row and stamped with the current time.
C15_Witness ==
    /\ ReadCall /\ last.op = "get_records_by_date_range"
    /\ Len(last.ret) = 2
    /\ \E i \in Selected(last) :
          /\ ~IsIsoText(records[i].record_date)
          /\ \E j \in 1..Len(last.ret) :
                /\ last.ret[j].record_id = records[i].id
                /\ last.ret[j].record_date = last.now

\* C16: add_record accepts a record whose category id has no row in
\* categories, and get_all_records() and get_records_by_date_range return it
\* with that category id and NULL name, icon and color, next to one Record for
\* every other row they select.
C16_UnmatchedCategory ==
    /\ (/\ last.op = "add_record" /\ last.fault = "none" /\ schema
        /\ ~HasId(categories, last.record.category.category_id)) => last.ret
    /\ ReadCall =>
        /\ Len(last.ret) = Cardinality(Selected(last))
        /\ \A i \in Selected(last) :
               \E j \in 1..Len(last.ret) :
                   /\ BuiltFrom(last.ret[j], records[i])
                   /\ ~HasId(categories, records[i].category_id) =>
                          last.ret[j].category =
                              Category(records[i].category_id, NULL, NULL, NULL)

\* C16 witness: a read has returned two records, one whose category id has no
\* row in categories although the ten default rows are there.
C16_Witness ==
    /\ ReadCall
    /\ Len(last.ret) = 2
    /\ Len(categories) = 10
    /\ \E i \in Selected(last) : ~HasId(categories, records[i].category_id)
    /\ \E i \in Selected(last) : HasId(categories, records[i].category_id)

\* C18: the ids of the persisted records are positive and differ from one
\* another, they increase in insertion order, none exceeds the store's
\* counter, and the caller's record_id is never the one stored.
C18_IdsIncrease ==
    /\ \A i \in 1..Len(records) : records[i].id > 0 /\ records[i].id <= seq
    /\ \A i, j \in 1..Len(records) : i < j => records[i].id < records[j].id
    /\ \A i \in 1..Len(records), j \in 1..Len(added) :
           records[i].id # added[j].record_id

\* C18 witness: a second add_record has just returned True.
C18_Witness ==
    /\ last.op = "add_record" /\ last.ret
    /\ Len(records) = 2
    /\ records[1].id < records[2].id

------------------------------------------------------------------------------
\* The application: MainApp starting on the file, and the record dialog.

\* The most rows the records table holds in the application specification.
MaxAppRecords == 4

\* MainApp._load_categories: SELECT id, name, icon, color FROM categories; any
\* error gives the empty list.
load_categories(sch, cats, fault) ==
    IF ~sch \/ fault # "none" THEN <<>>
    ELSE [i \in 1..Len(cats) |->
             Category(cats[i].id, cats[i].name, cats[i].icon, cats[i].color)]

\* The four Record objects of _create_sample_data, built from self.categories[1],
\* [7], [0] and [3] (amounts in hundredths), each stamped by Record.__init__.
sample_records(loaded, now) ==
    << Record(0, 25680, "EXPENSE", loaded[2], "ALIPAY", "groceries", now),
       Record(0, 660000, "INCOME", loaded[8], "WECHAT", "salary", now),
       Record(0, 12800, "EXPENSE", loaded[1], "WECHAT", "dinner", now),
       Record(0, 3900, "EXPENSE", loaded[4], "CASH", "cinema", now) >>

\* The for loop of _create_sample_data from its k-th record on: add_record for
\* each in turn, the result ignored.
RECURSIVE add_each(_, _, _, _, _)
add_each(sch, st, recs, faults, k) ==
    IF k > Len(recs) THEN st
    ELSE LET out == add_record_on(sch, st.records, st.seq, recs[k], faults[k])
         IN  add_each(sch,
                      [records |-> out.records, seq |-> out.seq,
                       added |-> IF out.ret THEN Append(st.added, recs[k]) ELSE st.added],
                      recs, faults, k + 1)

\* MainApp._create_sample_data on the file RecordManager() left: "if not
\* records" on what get_all_records() returned; building the list of samples
\* raises IndexError when fewer than eight categories were loaded.
create_sample_data(sch, cats, recs, sq, loaded, f_all, f_add, now) ==
    LET found == get_all_records_on(sch, cats, recs, <<>>, f_all, now)
        same == [records |-> recs, seq |-> sq, added |-> <<>>]
    IN  IF found # <<>> THEN [raised |-> FALSE, found |-> TRUE, store |-> same]
        ELSE IF Len(loaded) < 8 THEN [raised |-> TRUE, found |-> FALSE, store |-> same]
        ELSE [raised |-> FALSE, found |-> FALSE,
              store |-> add_each(sch, same, sample_records(loaded, now), f_add, 1)]

\* CompactRecordDialog._save_record: the two validations, then add_record on
\* the Record built from the widgets; selected is <<>> (no category selected)
\* or <<category>>.
\* (faulty variant: the amount test is "< 0")
save_record_accepts_zero(selected, amount, type_var, payment_var, note, now, fault) ==
    IF selected = <<>> \/ amount < 0
    THEN [called |-> FALSE, records |-> records, seq |-> seq, ret |-> FALSE,
          record |-> <<>>]
    ELSE LET record == Record(0, amount,
                              IF type_var = "Income" THEN "INCOME" ELSE "EXPENSE",
                              selected[1], PaymentMethodLookup(payment_var), note, now)
             out == add_record(record, fault)
         IN  [called |-> TRUE, records |-> out.records, seq |-> out.seq,
              ret |-> out.ret, record |-> << record >>]
save_record(selected, amount, type_var, payment_var, note, now, fault) ==
    IF selected = <<>> \/ amount <= 0
    THEN [called |-> FALSE, records |-> records, seq |-> seq, ret |-> FALSE,
          record |-> <<>>]
    ELSE LET record == Record(0, amount,
                              IF type_var = "Income" THEN "INCOME" ELSE "EXPENSE",
                              selected[1], PaymentMethodLookup(payment_var), note, now)
             out == add_record(record, fault)
         IN  [called |-> TRUE, records |-> out.records, seq |-> out.seq,
              ret |-> out.ret, record |-> << record >>]

\* main() before any start: no file, no process.
InitApp ==
    /\ schema = FALSE
    /\ categories = <<>>
    /\ records = <<>>
    /\ seq = 0
    /\ added = <<>>
    /\ last = NoCall
    /\ app = NotRunning

\* MainApp.__init__: RecordManager(), _load_categories(), _create_sample_data(),
\* update_balance() and refresh_transactions() (the last two read only). An
\* exception leaves __init__, main() prints it and the process ends:
\* IndexError from _create_sample_data, and the ValueError get_formatted_time
\* raises while refresh_transactions draws, on the first day of a month, a
\* record of an earlier day (only a row that was in the file before this start
\* can be one).
Startup(Nows) ==
    /\ Idle
    /\ ~app.running
    /\ \E f_init \in {"none", "connect", "commit"}, f_load \in {"none", "connect"},
          f_all \in {"none", "connect"}, now \in Nows :
         LET sch == init_database_schema(f_init)
             cats == init_database_categories(f_init)
             loaded == load_categories(sch, cats, f_load)
             seeds == /\ get_all_records_on(sch, cats, records, <<>>, f_all, now) = <<>>
                      /\ Len(loaded) >= 8
         IN  \E f_add \in (IF seeds THEN [1..4 -> {"none", "commit"}]
                           ELSE {[k \in 1..4 |-> "none"]}),
                first_of_month \in (IF sch /\ records # <<>> THEN BOOLEAN ELSE {FALSE}) :
               \E out \in {create_sample_data(sch, cats, records, seq, loaded,
                                              f_all, f_add, now)} :
                 /\ Len(out.store.records) <= MaxAppRecords
                 /\ schema' = sch
                 /\ categories' = cats
                 /\ records' = out.store.records
                 /\ seq' = out.store.seq
                 /\ added' = added \o out.store.added
                 /\ app' = IF out.raised \/ first_of_month THEN NotRunning
                           ELSE [running |-> TRUE, categories |-> loaded]
                 /\ last' = [op |-> "startup", found |-> out.found,
                             inserted |-> Len(out.store.added),
                             raised |-> out.raised \/ first_of_month]

\* MainApp.show_record_dialog and the dialog's save button: the dialog starts
\* with categories[0] selected when the application loaded any category.
SaveRecord(Amounts, Nows) ==
    /\ Idle
    /\ app.running
    /\ Len(records) < MaxAppRecords
    /\ \E amount \in Amounts, type_var \in TypeLabels, now \in Nows,
          fault \in {"none", "commit"},
          selected \in (IF app.categories = <<>> THEN {<<>>}
                        ELSE {<< app.categories[1] >>}) :
         LET out == save_record(selected, amount, type_var, "WeChat", "", now, fault)
         IN  /\ records' = out.records
             /\ seq' = out.seq
             /\ added' = IF out.ret THEN added \o out.record ELSE added
             /\ last' = [op |-> "save_record", selected |-> selected,
                         amount |-> amount, called |-> out.called, ret |-> out.ret]
    /\ UNCHANGED <<schema, categories, app>>

\* The window is closed: mainloop() returns and main() ends.
Quit ==
    /\ Idle
    /\ app.running
    /\ app' = NotRunning
    /\ UNCHANGED <<schema, categories, records, seq, added, last>>

\* What the amount field can hold after _on_amount_change: digits and one
\* '.', so never a negative number.
DialogAmounts == {0, 1250}

AppNows == {<<1, 0, 0>>}

NextApp ==
    \/ Startup(AppNows)
    \/ SaveRecord(DialogAmounts, AppNows)
    \/ Quit
    \/ Return

SpecApp == InitApp /\ [][NextApp]_vars

------------------------------------------------------------------------------
\* Properties of the application, under SpecApp.

\* C14: every persisted record has amount > 0, and _save_record does not call
\* add_record (and so writes nothing) when no category is selected or the
\* amount is <= 0.
C14_PositiveAmounts ==
    /\ \A i \in 1..Len(records) : records[i].amount > 0
    /\ (last.op = "save_record" /\ (last.selected = <<>> \/ last.amount <= 0)) =>
           ~last.called /\ ~last.ret

\* C14 witness: the dialog refused an amount of 0 on a store that holds the
\* samples, after it had saved a record.
C14_Witness ==
    /\ last.op = "save_record" /\ last.selected # <<>> /\ last.amount = 0
    /\ ~last.called
    /\ \E i \in 1..Len(records) : records[i].note = ""
    /\ \E i \in 1..Len(records) : records[i].note = "salary"

\* C19: a start of MainApp on a store that holds a record inserts nothing.
C19_SeedsOnlyEmptyStore ==
    [][(last'.op = "startup" /\ records # <<>>) => records' = records]_vars

\* The same for a start whose get_all_records() reached the store.
SeedsOnlyWhenReadEmpty ==
    [][(last'.op = "startup" /\ last'.found) => records' = records]_vars

------------------------------------------------------------------------------
\* Record.get_formatted_time. Here a datetime is a calendar value
\* [month, day, hm]: the month of one year, the day of the month, the time of
\* day in minutes.

Today == "Today"
Yesterday == "Yesterday"
MonthDay == "MM/DD"

date(d) == <<d.month, d.day>>

\* datetime.replace(day=n): ValueError when n is no day of the month.
replace_day(d, n) == IF n < 1 THEN ValueError ELSE [d EXCEPT !.day = n]

\* The result is the label with the fields strftime prints after it, or the
\* exception that leaves the method.
get_formatted_time(record_date, now) ==
    IF date(record_date) = date(now)
    THEN [raised |-> FALSE, label |-> Today, fields |-> << record_date.hm >>]
    ELSE IF now.day - 1 < 1
    THEN [raised |-> TRUE, label |-> ValueError, fields |-> <<>>]
    ELSE IF date(record_date) = date(replace_day(now, now.day - 1))
    THEN [raised |-> FALSE, label |-> Yesterday, fields |-> << record_date.hm >>]
    ELSE [raised |-> FALSE, label |-> MonthDay,
          fields |-> << record_date.month, record_date.day, record_date.hm >>]

CalendarDates == [month : {2, 3}, day : {1, 2, 3}, hm : {0, 1}]

InitFormat == InitApp

GetFormattedTime(Dates) ==
    /\ Idle
    /\ \E record_date \in Dates, now \in Dates :
         last' = [op |-> "get_formatted_time", record_date |-> record_date,
                  now |-> now, ret |-> get_formatted_time(record_date, now)]
    /\ UNCHANGED <<schema, categories, records, seq, added, app>>

NextFormat ==
    \/ GetFormattedTime(CalendarDates)
    \/ Return

SpecFormat == InitFormat /\ [][NextFormat]_vars

\* C17: get_formatted_time returns a label and never raises: "Today HH:MM" for
\* a record of today's date, "Yesterday HH:MM" for a record whose date is
\* today's with the day of the month one less, "MM/DD HH:MM" otherwise.
C17_FormattedTime ==
    last.op = "get_formatted_time" =>
        LET r == last.record_date
            n == last.now
        IN  /\ ~last.ret.raised
            /\ last.ret.label =
                   IF date(r) = date(n) THEN Today
                   ELSE IF r.month = n.month /\ r.day = n.day - 1 THEN Yesterday
                   ELSE MonthDay
            /\ last.ret.fields =
                   IF last.ret.label = MonthDay THEN << r.month, r.day, r.hm >>
                   ELSE << r.hm >>

\* The same for every call that is not made on the first day of a month for a
\* record of another date.
FormattedTimeOffFirstDay ==
    (last.op = "get_formatted_time"
        /\ ~(last.now.day = 1 /\ date(last.record_date) # date(last.now))) =>
        /\ ~last.ret.raised
        /\ last.ret.label =
               IF date(last.record_date) = date(last.now) THEN Today
               ELSE IF /\ last.record_date.month = last.now.month
                       /\ last.record_date.day = last.now.day - 1 THEN Yesterday
               ELSE MonthDay

====
